---- MODULE Spec2Model ----
(***************************************************************************)
(* Model of the Blender add-on "Static Sequential Image Exporter"          *)
(* (src/Static_Sequential_Image_Export.py): the operator                   *)
(* STATICSEQUENCE_OT_export.execute, stepped through its statements, over  *)
(* a small host scene (bpy.data objects and collections, the active        *)
(* scene's render settings, the filesystem seen by os.path.exists).        *)
(*                                                                         *)
(* Strings are sequences of tokens: a path separator is always a token of  *)
(* its own, so that str.endswith(('/', '\\')) is a test of the last token. *)
(***************************************************************************)
EXTENDS Integers, Sequences, FiniteSets, TLC

VARIABLES
    hide_render,        \* bpy.data.objects[o].hide_render
    scene_objects,      \* bpy.context.scene.objects (a set of objects)
    collections,        \* bpy.data.collections: name -> sequence of objects
    existing_paths,     \* the paths for which os.path.exists is True
    props,              \* context.scene.static_sequence_exporter_props
    engine,             \* bpy.context.scene.render.engine
    film_transparent,   \* bpy.context.scene.render.film_transparent
    scene_camera,       \* bpy.context.scene.camera (0: None)
    filepath,           \* bpy.context.scene.render.filepath
    pc,                 \* position of execute
    output_path,        \* local of execute
    render_collection,  \* local of execute: <<>> (None) or <<objects>>
    lighting_collection,\* local of execute: <<>> (None) or <<objects>>
    lighting_objs,      \* local of execute
    idx,                \* position of "for obj in render_collection.objects"
    reports,            \* what self.report was called with, in order
    result,             \* the value execute returned, or the exception raised
    render_log,         \* the calls of bpy.ops.render.render that wrote a file
    pre                 \* the host state when execute was called

vars == <<hide_render, scene_objects, collections, existing_paths, props, engine,
          film_transparent, scene_camera, filepath, pc, output_path,
          render_collection, lighting_collection, lighting_objs, idx, reports,
          result, render_log, pre>>

----------------------------------------------------------------------------
(* Bounds of the model *)

NumObjects == 3
MaxPathLen == 3

(* The host scene: objects 1..NumObjects of bpy.data.objects *)

Objects == 1..NumObjects

ObjectNames == <<"Cube", "Camera", "Sphere", "Lamp", "Empty", "Plane">>
ObjectTypes == <<"MESH", "CAMERA", "MESH", "LIGHT", "EMPTY", "MESH">>

Name(o) == ObjectNames[o]
Type(o) == ObjectTypes[o]

\* bpy.data.objects[name]
ObjectByName(n) == CHOOSE o \in Objects : Name(o) = n

Cameras == {o \in Objects : Type(o) = "CAMERA"}

----------------------------------------------------------------------------
(* Strings *)

Separators == {"/", "\\"}

\* output_path.endswith(('/', '\\'))
EndsWithSeparator(p) == Len(p) > 0 /\ p[Len(p)] \in Separators

\* a normalization that does not look at the end of the path
NormalizeAlwaysAppend(p) == p \o <<"/">>

\* lines 72-74: if not output_path.endswith(('/', '\\')): output_path += '/'
NormalizePath(p) == IF ~EndsWithSeparator(p) THEN p \o <<"/">> ELSE p

\* line 106: f'{output_path}{obj.name}.png'
FilePath(dir, name) == dir \o <<name>> \o <<".png">>

\* os.path.exists
PathExists(p) == p \in existing_paths

\* bpy.data.collections.get(name): None is <<>>, a collection c is <<c>>
CollectionsGet(name) ==
    IF name \in DOMAIN collections THEN <<collections[name]>> ELSE <<>>

DefaultRenderCollection == "Objects for Export"
DefaultLightingCollection == "Lighting"
DefaultOutputPath == <<"C:", "\\", "Users", "\\", "[user]", "\\", "Desktop", "\\", "\\">>

----------------------------------------------------------------------------
(* The states execute can be called in *)

\* the objects of a set, as a collection lists them
RECURSIVE SeqOfSet(_)
SeqOfSet(S) ==
    IF S = {} THEN <<>>
    ELSE LET m == CHOOSE x \in S : \A y \in S : x <= y
         IN <<m>> \o SeqOfSet(S \ {m})

CollectionContents == {SeqOfSet(S) : S \in SUBSET Objects}

\* bpy.data.collections: each of the two named collections exists or not
CollectionData ==
    UNION {[D -> CollectionContents] :
              D \in SUBSET {DefaultRenderCollection, DefaultLightingCollection}}

RECURSIVE SeqsUpTo(_, _)
SeqsUpTo(A, n) ==
    IF n = 0 THEN {<<>>}
    ELSE LET shorter == SeqsUpTo(A, n - 1)
         IN shorter \cup {Append(s, a) : s \in {t \in shorter : Len(t) = n - 1}, a \in A}

PathTokens == {"/", "\\", "out"}

OutputPaths ==
    SeqsUpTo(PathTokens, MaxPathLen)
        \cup {<<"C:", "\\", "out">>, <<"C:", "\\", "out", "\\">>, DefaultOutputPath}

\* the directories of a filesystem that has every directory asked for
AllDirectories ==
    ({p \o <<s>> : p \in OutputPaths, s \in Separators} \cup OutputPaths) \ {<<>>}

Engines == {"BLENDER_EEVEE", "CYCLES", "BLENDER_WORKBENCH"}

Locals ==
    /\ pc = "idle"
    /\ output_path = <<>>
    /\ render_collection = <<>>
    /\ lighting_collection = <<>>
    /\ lighting_objs = {}
    /\ idx = 0
    /\ reports = <<>>
    /\ result = "NONE"
    /\ render_log = <<>>
    /\ filepath = <<>>
    /\ pre = [hide_render |-> hide_render, engine |-> engine,
              film_transparent |-> film_transparent, camera |-> scene_camera]

\* any visibility flags, any collections, the default settings
InitVisibility ==
    /\ hide_render \in [Objects -> BOOLEAN]
    /\ scene_objects \in {Objects \ S : S \in {T \in SUBSET Objects : Cardinality(T) <= 1}}
    /\ collections \in CollectionData
    /\ existing_paths \in {{}, AllDirectories}
    /\ props = [render_collection |-> DefaultRenderCollection,
                lighting_collection |-> DefaultLightingCollection,
                output_path |-> DefaultOutputPath,
                use_cycles |-> FALSE,
                transparent_film |-> TRUE,
                camera_object |-> 0]
    /\ engine = "BLENDER_EEVEE"
    /\ film_transparent = FALSE
    /\ scene_camera = 0
    /\ Locals

\* any render settings, before and in the configuration
InitSettings ==
    /\ hide_render \in {[o \in Objects |-> FALSE], [o \in Objects |-> TRUE]}
    /\ scene_objects = Objects
    /\ collections \in
          {[n \in D |-> SeqOfSet(Objects)] :
              D \in {{DefaultLightingCollection},
                     {DefaultRenderCollection, DefaultLightingCollection}}}
    /\ existing_paths \in {{}, AllDirectories}
    /\ props \in [render_collection : {DefaultRenderCollection},
                  lighting_collection : {DefaultLightingCollection},
                  output_path : {DefaultOutputPath},
                  use_cycles : BOOLEAN,
                  transparent_film : BOOLEAN,
                  camera_object : {0} \cup Cameras]
    /\ engine \in Engines
    /\ film_transparent \in BOOLEAN
    /\ scene_camera \in {0} \cup Cameras
    /\ Locals

\* any output directory
InitPaths ==
    /\ hide_render = [o \in Objects |-> FALSE]
    /\ scene_objects = Objects
    /\ collections = [n \in {DefaultRenderCollection} |-> SeqOfSet(Objects)]
    /\ existing_paths \in {{}, AllDirectories}
    /\ props \in [render_collection : {DefaultRenderCollection},
                  lighting_collection : {DefaultLightingCollection},
                  output_path : OutputPaths,
                  use_cycles : {FALSE},
                  transparent_film : {TRUE},
                  camera_object : {0}]
    /\ engine = "BLENDER_EEVEE"
    /\ film_transparent = FALSE
    /\ scene_camera = 0
    /\ Locals

Init == InitVisibility \/ InitSettings \/ InitPaths

----------------------------------------------------------------------------
(* STATICSEQUENCE_OT_export.execute, statement by statement.  The operator   *)
(* runs synchronously on the host's main thread: nothing interleaves with it.*)

\* line 60: props.camera_object.name if props.camera_object else None
CameraName == IF props.camera_object # 0 THEN <<Name(props.camera_object)>> ELSE <<>>

\* lines 53-70: read the properties, set engine, film transparency and camera
ApplyRenderSettings ==
    /\ pc = "idle"
    /\ engine' = IF props.use_cycles THEN "CYCLES" ELSE "BLENDER_EEVEE"
    /\ film_transparent' = props.transparent_film
    /\ scene_camera' = IF CameraName # <<>> THEN ObjectByName(CameraName[1])
                       ELSE scene_camera
    /\ pc' = "normalize"
    /\ UNCHANGED <<hide_render, scene_objects, collections, existing_paths, props,
                   filepath, output_path, render_collection, lighting_collection,
                   lighting_objs, idx, reports, result, render_log, pre>>

\* lines 57, 72-74
NormalizeOutputPath ==
    /\ pc = "normalize"
    /\ output_path' = NormalizePath(props.output_path)
    /\ pc' = "lookup"
    /\ UNCHANGED <<hide_render, scene_objects, collections, existing_paths, props,
                   engine, film_transparent, scene_camera, filepath,
                   render_collection, lighting_collection, lighting_objs, idx,
                   reports, result, render_log, pre>>

\* lines 77-78
LookupCollections ==
    /\ pc = "lookup"
    /\ render_collection' = CollectionsGet(props.render_collection)
    /\ lighting_collection' = CollectionsGet(props.lighting_collection)
    /\ pc' = "check_collection"
    /\ UNCHANGED <<hide_render, scene_objects, collections, existing_paths, props,
                   engine, film_transparent, scene_camera, filepath, output_path,
                   lighting_objs, idx, reports, result, render_log, pre>>

CollectionNotFound(name) ==
    [level |-> "ERROR", text |-> <<"Collection '", name, "' not found.">>]

OutputPathInvalid(path) ==
    [level |-> "ERROR", text |-> <<"Output path '">> \o path \o <<"' does not exist.">>]

Rendered(name, path) ==
    [level |-> "INFO", text |-> <<"Rendered ", name, " to ">> \o path]

RenderingComplete == [level |-> "INFO", text |-> <<"Rendering complete.">>]

\* a check of the wrong collection
RenderCollectionMissingChecksLighting == lighting_collection = <<>>

\* a check that takes a missing lighting collection for an error too
RenderOrLightingMissing == render_collection = <<>> \/ lighting_collection = <<>>

\* line 80: if not render_collection
RenderCollectionMissing == render_collection = <<>>

\* lines 80-82
CheckRenderCollection ==
    /\ pc = "check_collection"
    /\ \/ /\ RenderCollectionMissing
          /\ reports' = Append(reports, CollectionNotFound(props.render_collection))
          /\ result' = "CANCELLED"
          /\ pc' = "done"
       \/ /\ ~RenderCollectionMissing
          /\ pc' = "check_path"
          /\ UNCHANGED <<reports, result>>
    /\ UNCHANGED <<hide_render, scene_objects, collections, existing_paths, props,
                   engine, film_transparent, scene_camera, filepath, output_path,
                   render_collection, lighting_collection, lighting_objs, idx,
                   render_log, pre>>

\* a check without its "not"
OutputPathMissingInverted == PathExists(output_path)

\* line 85: if not os.path.exists(output_path)
OutputPathMissing == ~PathExists(output_path)

\* lines 85-87
CheckOutputPath ==
    /\ pc = "check_path"
    /\ \/ /\ OutputPathMissing
          /\ reports' = Append(reports, OutputPathInvalid(output_path))
          /\ result' = "CANCELLED"
          /\ pc' = "done"
       \/ /\ ~OutputPathMissing
          /\ pc' = "lighting"
          /\ UNCHANGED <<reports, result>>
    /\ UNCHANGED <<hide_render, scene_objects, collections, existing_paths, props,
                   engine, film_transparent, scene_camera, filepath, output_path,
                   render_collection, lighting_collection, lighting_objs, idx,
                   render_log, pre>>

\* line 90: set(o for o in lighting_collection.objects) if lighting_collection else set()
LightingObjs(coll) ==
    IF coll # <<>> THEN {coll[1][i] : i \in 1..Len(coll[1])} ELSE {}

\* line 90, and the loop of line 93 starts at the collection's first object
BuildLightingSet ==
    /\ pc = "lighting"
    /\ lighting_objs' = LightingObjs(lighting_collection)
    /\ idx' = 1
    /\ pc' = "loop"
    /\ UNCHANGED <<hide_render, scene_objects, collections, existing_paths, props,
                   engine, film_transparent, scene_camera, filepath, output_path,
                   render_collection, lighting_collection, reports, result,
                   render_log, pre>>

\* render_collection.objects
RenderObjects == render_collection[1]

\* the obj of the loop of line 93
CurrentObj == RenderObjects[idx]

\* a loop without the test of the object's type
IsRenderTargetAnyType(o) == TRUE

\* line 94: if obj.type == 'MESH'
IsRenderTarget(o) == Type(o) = "MESH"

\* lines 93-94: the next object of the render collection, or the end of the loop
LoopHead ==
    /\ pc = "loop"
    /\ \/ /\ idx > Len(RenderObjects)
          /\ pc' = "restore"
          /\ UNCHANGED idx
       \/ /\ idx <= Len(RenderObjects)
          /\ IsRenderTarget(CurrentObj)
          /\ pc' = "isolate"
          /\ UNCHANGED idx
       \/ /\ idx <= Len(RenderObjects)
          /\ ~IsRenderTarget(CurrentObj)
          /\ idx' = idx + 1
          /\ UNCHANGED pc
    /\ UNCHANGED <<hide_render, scene_objects, collections, existing_paths, props,
                   engine, film_transparent, scene_camera, filepath, output_path,
                   render_collection, lighting_collection, lighting_objs, reports,
                   result, render_log, pre>>

\* "or" for "and"
HideFlagEither(other_obj, obj) == other_obj \notin lighting_objs \/ other_obj # obj

\* line 97: other_obj not in lighting_objs and other_obj != obj
HideFlag(other_obj, obj) == other_obj \notin lighting_objs /\ other_obj # obj

\* lines 96-100: the flags after the loop over the scene's objects and after
\* obj.hide_render = False
Isolated(obj) ==
    [[o \in Objects |-> IF o \in scene_objects THEN HideFlag(o, obj) ELSE hide_render[o]]
        EXCEPT ![obj] = FALSE]

\* lines 96-103 (view_layer.update() changes no state of this model)
Isolate ==
    /\ pc = "isolate"
    /\ hide_render' = Isolated(CurrentObj)
    /\ pc' = "filepath"
    /\ UNCHANGED <<scene_objects, collections, existing_paths, props, engine,
                   film_transparent, scene_camera, filepath, output_path,
                   render_collection, lighting_collection, lighting_objs, idx,
                   reports, result, render_log, pre>>

\* lines 106-107
SetFilepath ==
    /\ pc = "filepath"
    /\ filepath' = FilePath(output_path, Name(CurrentObj))
    /\ pc' = "render"
    /\ UNCHANGED <<hide_render, scene_objects, collections, existing_paths, props,
                   engine, film_transparent, scene_camera, output_path,
                   render_collection, lighting_collection, lighting_objs, idx,
                   reports, result, render_log, pre>>

\* the objects of the scene that are not excluded from the render
RenderVisible == {o \in scene_objects : ~hide_render[o]}

\* line 110: bpy.ops.render.render(write_still=True) writes the image to
\* scene.render.filepath
RenderStill ==
    /\ pc = "render"
    /\ render_log' = Append(render_log, [filepath |-> filepath, visible |-> RenderVisible])
    /\ pc' = "report"
    /\ UNCHANGED <<hide_render, scene_objects, collections, existing_paths, props,
                   engine, film_transparent, scene_camera, filepath, output_path,
                   render_collection, lighting_collection, lighting_objs, idx,
                   reports, result, pre>>

\* a render under try/finally: the flags are reset before the exception leaves
RenderRaisesAndRestores ==
    /\ pc = "render"
    /\ hide_render' = [o \in Objects |-> IF o \in scene_objects THEN FALSE
                                         ELSE hide_render[o]]
    /\ result' = "RuntimeError"
    /\ pc' = "done"
    /\ UNCHANGED <<scene_objects, collections, existing_paths, props, engine,
                   film_transparent, scene_camera, filepath, output_path,
                   render_collection, lighting_collection, lighting_objs, idx,
                   reports, render_log, pre>>

\* line 110: the operator call raises (RuntimeError); execute catches nothing
RenderRaises ==
    /\ pc = "render"
    /\ result' = "RuntimeError"
    /\ pc' = "done"
    /\ UNCHANGED <<hide_render, scene_objects, collections, existing_paths, props,
                   engine, film_transparent, scene_camera, filepath, output_path,
                   render_collection, lighting_collection, lighting_objs, idx,
                   reports, render_log, pre>>

\* line 113, and the loop goes on to the next object
ReportRendered ==
    /\ pc = "report"
    /\ reports' = Append(reports, Rendered(Name(CurrentObj), filepath))
    /\ idx' = idx + 1
    /\ pc' = "loop"
    /\ UNCHANGED <<hide_render, scene_objects, collections, existing_paths, props,
                   engine, film_transparent, scene_camera, filepath, output_path,
                   render_collection, lighting_collection, lighting_objs, result,
                   render_log, pre>>

\* a restoration that walks the render collection instead of the scene
RestoredRenderCollectionOnly ==
    [o \in Objects |->
        IF o \in {render_collection[1][i] : i \in 1..Len(render_collection[1])}
        THEN FALSE ELSE hide_render[o]]

\* lines 116-117: obj.hide_render = False for every object of the scene
Restored == [o \in Objects |-> IF o \in scene_objects THEN FALSE ELSE hide_render[o]]

\* lines 115-121
RestoreVisibility ==
    /\ pc = "restore"
    /\ hide_render' = Restored
    /\ reports' = Append(reports, RenderingComplete)
    /\ result' = "FINISHED"
    /\ pc' = "done"
    /\ UNCHANGED <<scene_objects, collections, existing_paths, props, engine,
                   film_transparent, scene_camera, filepath, output_path,
                   render_collection, lighting_collection, lighting_objs, idx,
                   render_log, pre>>

Next ==
    \/ ApplyRenderSettings
    \/ NormalizeOutputPath
    \/ LookupCollections
    \/ CheckRenderCollection
    \/ CheckOutputPath
    \/ BuildLightingSet
    \/ LoopHead
    \/ Isolate
    \/ SetFilepath
    \/ RenderStill
    \/ RenderRaises
    \/ ReportRendered
    \/ RestoreVisibility

Spec == Init /\ [][Next]_vars

----------------------------------------------------------------------------
(* What the properties below are stated with: the configuration and the     *)
(* host data as they were when execute was called (none of props,           *)
(* collections, scene_objects or existing_paths changes during a run).      *)

RenderCollectionResolves == props.render_collection \in DOMAIN collections

LightingCollectionResolves == props.lighting_collection \in DOMAIN collections

\* the objects of the configured render collection, in the collection's order
ConfiguredRenderObjects == collections[props.render_collection]

\* the members of the configured lighting collection
ConfiguredLightingMembers ==
    IF LightingCollectionResolves
    THEN {collections[props.lighting_collection][i] :
             i \in 1..Len(collections[props.lighting_collection])}
    ELSE {}

\* the configured directory with one "/" added when it ends with no separator
ExpectedDirectory ==
    LET p == props.output_path
    IN IF p # <<>> /\ (p[Len(p)] = "/" \/ p[Len(p)] = "\\") THEN p ELSE Append(p, "/")

ExpectedFile(o) == ExpectedDirectory \o <<ObjectNames[o], ".png">>

\* the files of the mesh objects among the first n objects of the render collection
RECURSIVE ExpectedFiles(_)
ExpectedFiles(n) ==
    IF n = 0 THEN <<>>
    ELSE LET o == ConfiguredRenderObjects[n]
         IN IF ObjectTypes[o] = "MESH" THEN Append(ExpectedFiles(n - 1), ExpectedFile(o))
            ELSE ExpectedFiles(n - 1)

RenderedFiles == [i \in 1..Len(render_log) |-> render_log[i].filepath]

ErrorReports == {i \in 1..Len(reports) : reports[i].level = "ERROR"}

\* the object the loop is at
Target == ConfiguredRenderObjects[idx]

----------------------------------------------------------------------------
\* C1: when the render-collection name resolves to no collection, execute
\* returns CANCELLED with one error report naming the collection, never gets
\* past the collection check, invokes the render zero times and leaves every
\* object's hide_render flag as it was.
C1_MissingRenderCollectionCancels ==
    ~RenderCollectionResolves =>
        /\ pc \in {"idle", "normalize", "lookup", "check_collection", "done"}
        /\ render_log = <<>>
        /\ hide_render = pre.hide_render
        /\ result \in {"NONE", "CANCELLED"}
        /\ pc = "done" =>
              /\ result = "CANCELLED"
              /\ reports = <<[level |-> "ERROR",
                              text |-> <<"Collection '", props.render_collection,
                                         "' not found.">>]>>

C1_Witness ==
    /\ ~RenderCollectionResolves
    /\ pc = "done"
    /\ result = "CANCELLED"
    /\ ConfiguredLightingMembers # {}
    /\ existing_paths # {}
    /\ \E o \in scene_objects : hide_render[o]
    /\ \E o \in scene_objects : ~hide_render[o]

\* C2: when the render collection resolves and the normalized output
\* directory does not exist, execute returns CANCELLED with one error report
\* naming the normalized path and invokes the render zero times.
C2_MissingOutputDirectoryCancels ==
    (RenderCollectionResolves /\ ExpectedDirectory \notin existing_paths) =>
        /\ pc \in {"idle", "normalize", "lookup", "check_collection", "check_path", "done"}
        /\ render_log = <<>>
        /\ result \in {"NONE", "CANCELLED"}
        /\ pc = "done" =>
              /\ result = "CANCELLED"
              /\ reports = <<[level |-> "ERROR",
                              text |-> <<"Output path '">> \o ExpectedDirectory
                                          \o <<"' does not exist.">>]>>

C2_Witness ==
    /\ RenderCollectionResolves
    /\ ExpectedDirectory \notin existing_paths
    /\ pc = "done"
    /\ result = "CANCELLED"
    /\ \E i \in 1..Len(ConfiguredRenderObjects) :
          ObjectTypes[ConfiguredRenderObjects[i]] = "MESH"
    /\ ~EndsWithSeparator(props.output_path)

\* C3: after a CANCELLED return the render engine, the film-transparency
\* flag, the active camera and every object's hide_render flag are what they
\* were before the call.
C3_CancelledLeavesHostStateUntouched ==
    (pc = "done" /\ result = "CANCELLED") =>
        /\ engine = pre.engine
        /\ film_transparent = pre.film_transparent
        /\ scene_camera = pre.camera
        /\ hide_render = pre.hide_render

\* C4: the render is invoked only with the path <directory><name>.png of a mesh
\* object of the render collection, in the collection's order and never twice
\* for a path; after a FINISHED run the files written are exactly those of the
\* collection's mesh objects, one each.
C4_OneFilePerMeshObject ==
    RenderCollectionResolves =>
        /\ \A i \in 1..Len(render_log) :
              \E k \in 1..Len(ConfiguredRenderObjects) :
                 /\ ObjectTypes[ConfiguredRenderObjects[k]] = "MESH"
                 /\ render_log[i].filepath = ExpectedFile(ConfiguredRenderObjects[k])
        /\ \A i, j \in 1..Len(render_log) :
              render_log[i].filepath = render_log[j].filepath => i = j
        /\ (pc = "done" /\ result = "FINISHED") =>
              /\ RenderedFiles = ExpectedFiles(Len(ConfiguredRenderObjects))
              /\ {render_log[i].filepath : i \in 1..Len(render_log)}
                    = {ExpectedFile(o) :
                          o \in {ConfiguredRenderObjects[k] :
                                    k \in {n \in 1..Len(ConfiguredRenderObjects) :
                                             ObjectTypes[ConfiguredRenderObjects[n]] = "MESH"}}}

\* meshes Cube and Sphere and the non-mesh Camera gave Cube.png and Sphere.png
C4_Witness ==
    /\ pc = "done"
    /\ result = "FINISHED"
    /\ ConfiguredRenderObjects = <<1, 2, 3>>
    /\ ConfiguredLightingMembers = {}
    /\ RenderedFiles = <<DefaultOutputPath \o <<"Cube", ".png">>,
                         DefaultOutputPath \o <<"Sphere", ".png">>>>

\* C5: when the render is invoked for object X, X's flag is false and a scene
\* object's flag is false exactly when the object is a member of the lighting
\* collection or is X.
C5_OnlyTargetAndLightingVisible ==
    pc = "render" =>
        /\ ~hide_render[Target]
        /\ \A o \in scene_objects :
              ~hide_render[o] <=> (o \in ConfiguredLightingMembers \cup {Target})

\* the second render of a run, with a lighting member that was hidden before the
\* run and an object outside both sets that was visible before the run
C5_Witness ==
    /\ pc = "render"
    /\ render_log # <<>>
    /\ \E o \in ConfiguredLightingMembers \cap scene_objects :
          o # Target /\ pre.hide_render[o]
    /\ \E o \in scene_objects \ (ConfiguredLightingMembers \cup {Target}) :
          ~pre.hide_render[o]

\* C6: after a FINISHED run every object of the scene has hide_render false.
C6_FinishedLeavesAllVisible ==
    (pc = "done" /\ result = "FINISHED") =>
        \A o \in scene_objects : ~hide_render[o]

C6_Witness ==
    /\ pc = "done"
    /\ result = "FINISHED"
    /\ ConfiguredRenderObjects # <<>>
    /\ render_log # <<>>
    /\ \E o \in scene_objects : pre.hide_render[o]
    /\ \E o \in scene_objects : ~pre.hide_render[o]

\* C7: when execute has completed, by a return or by an exception, every
\* scene object's hide_render flag is what it was before the run.
C7_VisibilityRoundTrip ==
    pc = "done" => \A o \in scene_objects : hide_render[o] = pre.hide_render[o]

\* C8: the directory used is the configured one with one "/" appended when it
\* ends with neither "/" nor "\", and the configured one itself otherwise;
\* normalizing it again changes nothing; the render target of an object is the
\* directory followed by the object's name and ".png".
C8_OutputPathConstruction ==
    /\ pc \notin {"idle", "normalize"} =>
          /\ output_path = ExpectedDirectory
          /\ EndsWithSeparator(props.output_path) => output_path = props.output_path
          /\ ~EndsWithSeparator(props.output_path) =>
                /\ Len(output_path) = Len(props.output_path) + 1
                /\ SubSeq(output_path, 1, Len(props.output_path)) = props.output_path
                /\ output_path[Len(output_path)] = "/"
          /\ NormalizePath(output_path) = output_path
    /\ pc \in {"render", "report"} =>
          /\ filepath = output_path \o <<ObjectNames[Target], ".png">>
          /\ (props.output_path = <<"C:", "\\", "out">> /\ ObjectNames[Target] = "Cube")
                => filepath = <<"C:", "\\", "out", "/", "Cube", ".png">>

C8_Witness ==
    /\ pc = "render"
    /\ props.output_path = <<"C:", "\\", "out">>
    /\ filepath = <<"C:", "\\", "out", "/", "Cube", ".png">>

\* C9: with a render collection and an output directory that resolve and a
\* lighting collection that does not, execute reports no error and is never
\* cancelled, it returns FINISHED with every mesh object rendered unless the
\* host's render raises, and at each render the target is the only scene
\* object whose hide_render flag is false.
C9_MissingLightingCollectionIsNoError ==
    (RenderCollectionResolves /\ ExpectedDirectory \in existing_paths
        /\ ~LightingCollectionResolves) =>
        /\ result # "CANCELLED"
        /\ ErrorReports = {}
        /\ (pc = "done" /\ result # "RuntimeError") =>
              /\ result = "FINISHED"
              /\ RenderedFiles = ExpectedFiles(Len(ConfiguredRenderObjects))
        /\ pc = "render" =>
              /\ ~hide_render[Target]
              /\ \A o \in scene_objects : ~hide_render[o] <=> o = Target

C9_Witness ==
    /\ RenderCollectionResolves
    /\ ~LightingCollectionResolves
    /\ pc = "done"
    /\ result = "FINISHED"
    /\ Len(render_log) = 2
    /\ \A i \in 1..Len(render_log) : Cardinality(render_log[i].visible) = 1
    /\ \E o \in scene_objects : ~pre.hide_render[o] /\ ObjectTypes[o] # "MESH"

\* C10: when the host's render raises for object X, execute ends there: it is
\* not FINISHED, the objects rendered are the mesh objects before X only, no
\* completion is reported, and every scene object other than X and the
\* lighting members is left with hide_render true.
C10_RenderFailureAbortsWithoutRestore ==
    result = "RuntimeError" =>
        /\ pc = "done"
        /\ RenderedFiles = ExpectedFiles(idx - 1)
        /\ ObjectTypes[Target] = "MESH"
        /\ \A i \in 1..Len(reports) : reports[i].text # <<"Rendering complete.">>
        /\ ~hide_render[Target]
        /\ \A o \in scene_objects \ (ConfiguredLightingMembers \cup {Target}) :
              hide_render[o]

\* the render of the first mesh raised, a later mesh was never rendered, and an
\* object that was visible before the run is left hidden
C10_Witness ==
    /\ result = "RuntimeError"
    /\ \E k \in (idx + 1)..Len(ConfiguredRenderObjects) :
          ObjectTypes[ConfiguredRenderObjects[k]] = "MESH"
    /\ \E o \in scene_objects : ~pre.hide_render[o] /\ hide_render[o]

====
